---- MODULE Spec2Model ----
(***************************************************************************)
(* Model of server.js, the APK template replacement builder.               *)
(*                                                                         *)
(* The server is a single Node.js process.  Every handler body is          *)
(* synchronous (the create-apk handler is declared async but never         *)
(* awaits), so each request handler and each timer callback runs to        *)
(* completion as one step.  What can go wrong inside a step is a file      *)
(* write that throws: fs.writeFileSync / AdmZip.writeZip open the target   *)
(* with flag "w", so a failed write either leaves the file as it was       *)
(* (open failed) or leaves a truncated prefix (write failed part-way).     *)
(*                                                                         *)
(* The process is taken to keep running after a rejected handler promise.  *)
(* The zip library is modelled by its entry table: names are looked up     *)
(* and stored exactly as given.                                            *)
(***************************************************************************)
EXTENDS Integers, Sequences, FiniteSets, TLC

VARIABLES
    clock,        \* Date.now()
    templates,    \* files of TEMPLATES_DIR: file name -> [data, complete]
    generated,    \* files of the generated directory: name -> [data, complete, req]
    timers,       \* pending setTimeout callbacks: [name, req, due]
    DB,           \* the in-memory DB object: [stats, requests]
    dbFile,       \* db.json: [data, complete]
    nextReq,      \* number of create-apk requests received so far
    uploads,      \* number of template uploads received so far
    last,         \* what the latest create-apk request did and was answered
    persisted,    \* [name, req]: the requests whose writeZip has completed
    answered,     \* [name, req]: the requests answered with a download link
    uploaded,     \* buffer of the last upload answered ok (at most one element)
    expired       \* names whose cleanup callback has run

vars == <<clock, templates, generated, timers, DB, dbFile, nextReq, uploads, last,
          persisted, answered, uploaded, expired>>

-----------------------------------------------------------------------------
(* Bounds of the model *)

MaxClock == 1
MaxReq == 2
MaxUploads == 1
MaxLen == 1
MaxText == 3

-----------------------------------------------------------------------------
(* Configuration, lines 17-19 *)

ADMIN_PASS == "admin123"

\* retention window, in clock ticks
CLEANUP_SECONDS == 1

Passes == {"admin123", "guess"}

-----------------------------------------------------------------------------
(* Strings.  A label is a sequence of one-character strings; a payload is  *)
(* a sequence of text fragments.                                           *)

Take(s, n) == SubSeq(s, 1, IF Len(s) < n THEN Len(s) ELSE n)

WordChars ==
    {"a","b","c","d","e","f","g","h","i","j","k","l","m","n","o","p","q","r",
     "s","t","u","v","w","x","y","z","A","B","C","D","E","F","G","H","I","J",
     "K","L","M","N","O","P","Q","R","S","T","U","V","W","X","Y","Z","0","1",
     "2","3","4","5","6","7","8","9","_"}

\* projectNameRaw.replace(/[^\w\-]/g,'-')
ReplaceUnsafe(s) ==
    [i \in 1..Len(s) |-> IF s[i] \in WordChars \cup {"-"} THEN s[i] ELSE "-"]

anon == <<"a","n","o","n">>
rapzApp == <<"r","a","p","z","-","a","p","p">>
defaultPath == "assets/www/index.html"

Username(body) == Take(IF body.username # <<>> THEN body.username ELSE anon, 64)

ProjectName(body) ==
    LET raw == IF body.projectName # <<>> THEN body.projectName ELSE rapzApp
        cut == Take(ReplaceUnsafe(raw), 50)
    IN  IF cut # <<>> THEN cut ELSE rapzApp

ReplacePath(body) == IF body.replacePath # "" THEN body.replacePath ELSE defaultPath

\* String.prototype.toLowerCase on the fragments the model uses
LowerFragment(f) ==
    CASE f = "<HTML" -> "<html"
      [] f = "<Body" -> "<body"
      [] f = "<!DOCTYPE html" -> "<!doctype html"
      [] f = ".HTML" -> ".html"
      [] f = ".HTM"  -> ".htm"
      [] OTHER -> f

toLowerCase(s) == [i \in 1..Len(s) |-> LowerFragment(s[i])]

includes(s, f) == \E i \in 1..Len(s) : s[i] = f

endsWith(s, f) == Len(s) > 0 /\ s[Len(s)] = f

\* Buffer.toString('utf8'): an ill-formed byte decodes to U+FFFD
Utf8Decode(b) == [i \in 1..Len(b) |-> IF b[i] = "\\xFF" THEN "U+FFFD" ELSE b[i]]

\* Buffer.from(s, 'utf8'): U+FFFD encodes to the bytes EF BF BD
Utf8Encode(s) == [i \in 1..Len(s) |-> IF s[i] = "U+FFFD" THEN "\\xEF\\xBF\\xBD" ELSE s[i]]

\* variant: any text that is not empty passes
isLikelyHtmlNonEmpty(s) == s # <<>>

isLikelyHtml(s) ==
    IF s = <<>> THEN FALSE
    ELSE LET lowered == toLowerCase(s)
         IN  includes(lowered, "<!doctype html") \/ includes(lowered, "<html")
                \/ includes(lowered, "<body")

-----------------------------------------------------------------------------
(* Inputs *)

Fragments == {"<HTML", "hello"}

RECURSIVE SeqsUpTo(_, _)
SeqsUpTo(S, n) ==
    IF n = 0 THEN {<<>>}
    ELSE LET shorter == SeqsUpTo(S, n - 1)
         IN  shorter \cup {Append(s, x) : s \in shorter, x \in S}

Payloads == SeqsUpTo(Fragments, MaxLen)

\* originalname of an uploaded file
FileNames == {<<"page", ".HTML">>, <<"app", ".apk">>}

NoFile == [present |-> FALSE, originalname |-> <<>>, buffer |-> <<>>]

ReqFiles ==
    {NoFile} \cup
    {[present |-> TRUE, originalname |-> n, buffer |-> b] : n \in FileNames, b \in Payloads}

Bodies ==
    [username : {<<>>},
     projectName : {<<"a", " ">>, <<"a", "-">>},
     replacePath : {"", "../x"},
     text : Payloads]

RandomIds == {"k3f9"}

\* what a file write can do: complete, fail at open, fail part-way
WriteOutcomes == {"ok", "eopen", "epartial"}

\* db.json exists from start-up on; a failing save leaves it torn
SaveOutcomes == {"ok", "epartial"}

\* a zip container is its entry table; a buffer that is no zip has zip = FALSE
Container(names) == [p \in names |-> IF p = defaultPath THEN <<"old">> ELSE <<"bin">>]

TemplateBuffers ==
    {[zip |-> TRUE, entries |-> Container({defaultPath, "lib/a.so"})],
     [zip |-> TRUE, entries |-> Container({"lib/a.so"})]}

NoTemplateFile == [present |-> FALSE, buffer |-> [zip |-> FALSE, entries |-> Container({})]]

TemplateFiles ==
    {NoTemplateFile} \cup {[present |-> TRUE, buffer |-> b] : b \in TemplateBuffers}

-----------------------------------------------------------------------------
(* Files *)

curName == <<"current_template.apk", 0>>

\* fs.writeFileSync(path, data) with flag "w"
writeFileSync(dir, name, data, outcome) ==
    CASE outcome = "ok"       -> (name :> [data |-> data, complete |-> TRUE]) @@ dir
      [] outcome = "epartial" -> (name :> [data |-> data, complete |-> FALSE]) @@ dir
      [] OTHER                -> dir

existsSync(dir, name) == name \in DOMAIN dir

\* express.static over the generated directory: the bytes of the file, if any
fetch(name) ==
    IF existsSync(generated, name)
    THEN {[data |-> generated[name].data, complete |-> generated[name].complete]}
    ELSE {}

-----------------------------------------------------------------------------
(* The zip library, as used on lines 127-140 *)

\* new AdmZip(path) throws unless the file holds a whole zip archive
Readable(file) == file.complete /\ file.data.zip

getEntry(zip, p) == IF p \in DOMAIN zip THEN {zip[p]} ELSE {}

\* variant: the new content is added to the entry's data instead of replacing it
updateFileAppending(zip, p, content) == [zip EXCEPT ![p] = @ \o content]

updateFile(zip, p, content) == [zip EXCEPT ![p] = content]

addFile(zip, p, content) == (p :> content) @@ zip

\* variant: the entry is put into a fresh archive instead of the template's
RewriteIntoEmptyArchive(zip, p, content) == (p :> content)

Rewrite(zip, p, content) ==
    IF getEntry(zip, p) # {} THEN updateFile(zip, p, content)
    ELSE addFile(zip, p, content)

\* variant: the handler goes on before the file has been written out
writeZipNotAwaited(dir, name, zip, outcome, req) ==
    IF outcome = "eopen" THEN dir
    ELSE (name :> [data |-> zip, complete |-> FALSE, req |-> req]) @@ dir

\* zip.writeZip(outFull): the file is opened with flag "w", then written
writeZip(dir, name, zip, outcome, req) ==
    CASE outcome = "ok"       -> (name :> [data |-> zip, complete |-> TRUE, req |-> req]) @@ dir
      [] outcome = "epartial" -> (name :> [data |-> zip, complete |-> FALSE, req |-> req]) @@ dir
      [] OTHER                -> dir

\* fs.unlinkSync(path) inside try/catch: an absent file is left alone
unlinkQuiet(dir, name) == [n \in DOMAIN dir \ {name} |-> dir[n]]

-----------------------------------------------------------------------------
(* The request ledger, lines 26-30 and 142-163 *)

DB_FILE == "db.json"

emptyDB == [stats |-> [success |-> 0, fail |-> 0], requests |-> <<>>]

saveDB(file, db, outcome) == writeFileSync(file, DB_FILE, db, outcome)

\* variant: the record is added but the counter is left alone
RecordSuccessUncounted(db, rec) ==
    [stats |-> db.stats, requests |-> <<rec>> \o db.requests]

\* lines 143-148
RecordSuccess(db, rec) ==
    [stats |-> [db.stats EXCEPT !.success = @ + 1], requests |-> <<rec>> \o db.requests]

\* variant: the error record is added but the wrong counter is raised
RecordFailureAsSuccess(db, now, err) ==
    [stats |-> [db.stats EXCEPT !.success = @ + 1],
     requests |-> <<[id |-> now, error |-> err]>> \o db.requests]

\* variant: the error record replaces the list instead of being added to it
RecordFailureReplacing(db, now, err) ==
    [stats |-> [db.stats EXCEPT !.fail = @ + 1],
     requests |-> <<[id |-> now, error |-> err]>>]

\* lines 161-162
RecordFailure(db, now, err) ==
    [stats |-> [db.stats EXCEPT !.fail = @ + 1],
     requests |-> <<[id |-> now, error |-> err]>> \o db.requests]

\* variant: the callback is registered before the artifact is written
ScheduleBeforeWrite(tm, name, req, now, wrote, saved) ==
    tm \cup {[name |-> name, req |-> req, due |-> now + CLEANUP_SECONDS]}

\* lines 152-154: the callback is registered once writeZip and saveDB have returned
Schedule(tm, name, req, now, wrote, saved) ==
    IF wrote /\ saved
    THEN tm \cup {[name |-> name, req |-> req, due |-> now + CLEANUP_SECONDS]}
    ELSE tm

-----------------------------------------------------------------------------
(* State *)

NoName == <<>>

\* stage: how far the handler got ("rejected", "parse", "write", "save", "done");
\* status "none": the handler threw out of its catch block and sent no answer
\* payload: the text handed to isLikelyHtml, <<>> when the request had none
Idle == [op |-> "other", req |-> 0, status |-> "none", message |-> "", stage |-> "",
         name |-> NoName, url |-> NoName, path |-> "", content |-> <<>>,
         payload |-> <<>>, template |-> {}]

Init ==
    /\ clock = 0
    /\ templates = [n \in {} |-> 0]
    /\ generated = [n \in {} |-> 0]
    /\ timers = {}
    /\ DB = emptyDB
    /\ dbFile = (DB_FILE :> [data |-> emptyDB, complete |-> TRUE])
    /\ nextReq = 0
    /\ uploads = 0
    /\ last = Idle
    /\ persisted = {}
    /\ answered = {}
    /\ uploaded = {}
    /\ expired = {}

\* the wall clock advances
Tick ==
    /\ clock < MaxClock
    /\ clock' = clock + 1
    /\ last' = Idle
    /\ UNCHANGED <<templates, generated, timers, DB, dbFile, nextReq, uploads,
                   persisted, answered, uploaded, expired>>

-----------------------------------------------------------------------------
(* POST /api/admin/upload-template, lines 49-64 *)

UploadTemplate(pass, file, w1, w2) ==
    LET name == <<"template", clock>>
        t1 == writeFileSync(templates, name, file.buffer, w1)
        t2 == writeFileSync(t1, curName, file.buffer, w2)
    IN  /\ uploads < MaxUploads
        /\ uploads' = uploads + 1
        /\ IF pass # ADMIN_PASS \/ ~file.present
           THEN UNCHANGED <<templates, uploaded>>
           ELSE IF w1 # "ok"
           THEN templates' = t1 /\ UNCHANGED uploaded
           ELSE IF w2 # "ok"
           THEN templates' = t2 /\ UNCHANGED uploaded
           ELSE templates' = t2 /\ uploaded' = {file.buffer}
        /\ last' = Idle
        /\ UNCHANGED <<clock, generated, timers, DB, dbFile, nextReq, persisted, answered,
                       expired>>

-----------------------------------------------------------------------------
(* POST /api/create-apk, lines 80-166 *)

\* lines 88-102: the file is unsupported, or there is no payload at all
Unsupported(file) ==
    LET fname == toLowerCase(file.originalname)
    IN  file.present /\ ~(endsWith(fname, ".html") \/ endsWith(fname, ".htm"))

Missing(body, file) == ~file.present /\ body.text = <<>>

HtmlContent(body, file) == IF file.present THEN Utf8Decode(file.buffer) ELSE body.text

\* variant: the template is looked for before the payload is examined
EarlyReturnTemplateFirst(body, file) ==
    IF ~existsSync(templates, curName) THEN "No APK template found on server."
    ELSE IF Unsupported(file) THEN "Uploaded file not supported for direct replacement."
    ELSE IF Missing(body, file) THEN "No HTML provided."
    ELSE IF ~isLikelyHtml(HtmlContent(body, file))
    THEN "Provided content does not look like valid HTML."
    ELSE ""

\* lines 88-117: the message of the early return, "" when there is none
EarlyReturn(body, file) ==
    IF Unsupported(file) THEN "Uploaded file not supported for direct replacement."
    ELSE IF Missing(body, file) THEN "No HTML provided."
    ELSE IF ~isLikelyHtml(HtmlContent(body, file))
    THEN "Provided content does not look like valid HTML."
    ELSE IF ~existsSync(templates, curName) THEN "No APK template found on server."
    ELSE ""

Answer(req, status, message, stage) ==
    [Idle EXCEPT !.op = "create", !.req = req, !.status = status, !.message = message,
                 !.stage = stage]

CreateApkRejected(body, file) ==
    LET message == EarlyReturn(body, file)
    IN  /\ nextReq < MaxReq
        /\ message # ""
        /\ nextReq' = nextReq + 1
        /\ last' = [Answer(nextReq + 1,
                          IF message = "No APK template found on server." THEN "500" ELSE "400",
                          message, "rejected")
                       EXCEPT !.payload = IF Unsupported(file) \/ Missing(body, file)
                                          THEN <<>> ELSE HtmlContent(body, file)]
        /\ UNCHANGED <<clock, templates, generated, timers, DB, dbFile, uploads,
                       persisted, answered, uploaded, expired>>

CreateApkBuilt(body, file, wz, s1, s2, rnd) ==
    LET req == nextReq + 1
        username == Username(body)
        projectName == ProjectName(body)
        replacePath == ReplacePath(body)
        content == Utf8Encode(HtmlContent(body, file))
        outName == <<projectName, clock>>
        \* lines 127-140
        cur == templates[curName]
        parsed == Readable(cur)
        zip == Rewrite(cur.data.entries, replacePath, content)
        wrote == parsed /\ wz = "ok"
        gen1 == IF parsed THEN writeZip(generated, outName, zip, wz, req) ELSE generated
        \* lines 143-149
        rec == [id |-> <<clock, rnd>>, username |-> username, projectName |-> projectName,
                replacePath |-> replacePath, filename |-> outName, createdAt |-> clock]
        db1 == IF wrote THEN RecordSuccess(DB, rec) ELSE DB
        file1 == IF wrote THEN saveDB(dbFile, db1, s1) ELSE dbFile
        saved == wrote /\ s1 = "ok"
        \* lines 159-164
        err == IF ~parsed THEN "Error: Invalid or unsupported zip format"
               ELSE IF wz # "ok" THEN "Error: write generated apk"
               ELSE "Error: write db.json"
        db2 == IF saved THEN db1 ELSE RecordFailure(db1, clock, err)
        file2 == IF saved THEN file1 ELSE saveDB(file1, db2, s2)
    IN  /\ nextReq < MaxReq
        /\ EarlyReturn(body, file) = ""
        /\ nextReq' = req
        /\ generated' = gen1
        /\ persisted' = IF wrote THEN persisted \cup {[name |-> outName, req |-> req]}
                        ELSE persisted
        /\ answered' = IF saved THEN answered \cup {[name |-> outName, req |-> req]}
                       ELSE answered
        /\ DB' = db2
        /\ dbFile' = file2
        /\ timers' = Schedule(timers, outName, req, clock, wrote, saved)
        /\ last' = [Answer(req,
                           IF saved THEN "200" ELSE IF s2 = "ok" THEN "500" ELSE "none",
                           IF saved THEN "APK generated"
                           ELSE IF s2 = "ok" THEN "server error" ELSE "",
                           IF ~parsed THEN "parse" ELSE IF ~wrote THEN "write"
                           ELSE IF ~saved THEN "save" ELSE "done")
                      EXCEPT !.name = IF wrote THEN outName ELSE NoName,
                             !.url = IF saved THEN outName ELSE NoName,
                             !.path = IF wrote THEN replacePath ELSE "",
                             !.content = IF wrote THEN content ELSE <<>>,
                             !.payload = HtmlContent(body, file),
                             !.template = {cur}]
        /\ UNCHANGED <<clock, templates, uploads, uploaded, expired>>

\* the outcomes of the three writes of one request and its Math.random() id;
\* a write that is not reached on the path taken is listed as "ok" only
BuildRuns ==
    {r \in [wz : WriteOutcomes, s1 : SaveOutcomes, s2 : SaveOutcomes, rnd : RandomIds] :
        /\ r.wz # "ok" => r.s1 = "ok"
        /\ (r.wz = "ok" /\ r.s1 = "ok") => r.s2 = "ok"}

CreateApk(body, file) ==
    IF EarlyReturn(body, file) # ""
    THEN CreateApkRejected(body, file)
    ELSE \E r \in BuildRuns : CreateApkBuilt(body, file, r.wz, r.s1, r.s2, r.rnd)

-----------------------------------------------------------------------------
(* The cleanup callback, lines 152-154 *)

\* variant: the callback also clears the timestamped copies of the templates
TimerFireSweepingTemplates(t) ==
    /\ t \in timers
    /\ clock >= t.due
    /\ generated' = unlinkQuiet(generated, t.name)
    /\ templates' = [n \in DOMAIN templates \cap {curName} |-> templates[n]]
    /\ timers' = timers \ {t}
    /\ expired' = expired \cup {t.name}
    /\ last' = Idle
    /\ UNCHANGED <<clock, DB, dbFile, nextReq, uploads, persisted, answered, uploaded>>

TimerFire(t) ==
    /\ t \in timers
    /\ clock >= t.due
    /\ generated' = unlinkQuiet(generated, t.name)
    /\ timers' = timers \ {t}
    /\ expired' = expired \cup {t.name}
    /\ last' = Idle
    /\ UNCHANGED <<clock, templates, DB, dbFile, nextReq, uploads, persisted, answered,
                   uploaded>>

-----------------------------------------------------------------------------

Next ==
    \/ Tick
    \/ \E pass \in Passes, file \in TemplateFiles, w1 \in WriteOutcomes, w2 \in WriteOutcomes :
          UploadTemplate(pass, file, w1, w2)
    \/ \E body \in Bodies, file \in ReqFiles : CreateApk(body, file)
    \/ \E t \in timers : TimerFire(t)

Spec == Init /\ [][Next]_vars

-----------------------------------------------------------------------------
(* The pure functions of the handler, each applied once, from the start   *)
(* state, to an input of its own                                          *)

Texts == SeqsUpTo({"<!DOCTYPE html", "<HTML", "<html", "<Body", "hello"}, MaxText)

\* isLikelyHtml(htmlContent), lines 40-45 and 105
Validate(text) ==
    /\ last = Idle
    /\ last' = [Idle EXCEPT !.op = "validate", !.payload = text,
                            !.message = IF isLikelyHtml(text) THEN "accepted" ELSE "rejected"]
    /\ UNCHANGED <<clock, templates, generated, timers, DB, dbFile, nextReq, uploads,
                   persisted, answered, uploaded, expired>>

Containers == {Container(names) : names \in SUBSET {defaultPath, "lib/a.so", "../x"}}

Contents == SeqsUpTo({"<HTML", "old"}, MaxLen)

once == <<"once", 0>>
twice == <<"twice", 0>>

\* lines 127-140 run on a template, and run again on their own output
RewriteTwice(zip, p, content) ==
    LET first == Rewrite(zip, p, content)
        second == Rewrite(first, p, content)
    IN  /\ last = Idle
        /\ generated' = writeZip(writeZip(generated, once, first, "ok", 1),
                                 twice, second, "ok", 2)
        /\ last' = [Idle EXCEPT !.op = "rewrite", !.path = p, !.content = content,
                                !.template = {[data |-> [zip |-> TRUE, entries |-> zip],
                                               complete |-> TRUE]}]
        /\ UNCHANGED <<clock, templates, timers, DB, dbFile, nextReq, uploads,
                       persisted, answered, uploaded, expired>>

NextPure ==
    \/ \E text \in Texts : Validate(text)
    \/ \E zip \in Containers, p \in {defaultPath, "lib/a.so", "../x"}, content \in Contents :
          RewriteTwice(zip, p, content)

SpecPure == Init /\ [][NextPure]_vars

-----------------------------------------------------------------------------
(* Properties *)

\* the step is a create-apk request
CreateStep == nextReq' = nextReq + 1

\* the container the latest request read as the current template
TemplateRead == (CHOOSE f \in last.template : TRUE).data.entries

\* C1: every create-apk request that ends in failure, whatever the cause, adds
\* exactly one ledger entry, a Failure entry with a cause, and adds one to the
\* failure counter.
C1_EveryFailureIsRecordedOnce ==
    [][(CreateStep /\ last'.status # "200") =>
          /\ Len(DB'.requests) = Len(DB.requests) + 1
          /\ "error" \in DOMAIN Head(DB'.requests)
          /\ DB'.stats.fail = DB.stats.fail + 1]_vars

\* C2: once the artifact has been written, a failing ledger save does not mask
\* the result: the caller is answered 200 with the link to that artifact.
C2_LedgerFailureDoesNotMaskSuccess ==
    (last.op = "create" /\ last.stage \in {"save", "done"}) =>
        (last.status = "200" /\ last.url = last.name)

Live(n) ==
    /\ generated[n].complete
    /\ [name |-> n, req |-> generated[n].req] \in answered
    /\ \E t \in timers : t.name = n /\ t.req = generated[n].req

\* C4: after a successful create the artifact is fetchable with the bytes written
\* for it, it stays so until an expiry action for its name runs, and a name whose
\* expiry action has run is never fetchable again.
C4_FetchableUntilExpiry ==
    /\ [](last.status = "200" =>
             fetch(last.url) = {[data |-> Rewrite(TemplateRead, last.path, last.content),
                                 complete |-> TRUE]})
    /\ [][\A n \in DOMAIN generated :
             (Live(n) /\ \A t \in timers : t.name = n => t \in timers') =>
                 fetch(n)' = fetch(n)]_vars
    /\ [](\A n \in expired : fetch(n) = {})

\* C5: every artifact a request has written has a pending expiry timer.
C5_EveryArtifactHasTimer ==
    \A n \in DOMAIN generated :
        generated[n].complete => \E t \in timers : t.name = n

C7_DistinctNames ==
    \A a \in answered, b \in answered : a.req # b.req => a.name # b.name

\* C8: a firing timer raises nothing and removes at most the artifact of the
\* request that scheduled it, never another request's artifact.
C8_TimerRemovesOnlyItsOwn ==
    [][\A t \in timers : t \notin timers' =>
          \A n \in DOMAIN generated :
              n \notin DOMAIN generated' => (n = t.name /\ generated[n].req = t.req)]_vars

\* C9: the current template is the whole buffer of the last upload that was
\* answered ok, and is absent when no upload was.
C9_CurrentIsLastUpload ==
    IF uploaded = {}
    THEN ~existsSync(templates, curName)
    ELSE /\ existsSync(templates, curName)
         /\ uploaded = {templates[curName].data}
         /\ templates[curName].complete

\* C10: what a request reads as the current template is a whole uploaded buffer,
\* never a partly written one.
C10_ReaderSeesWholeTemplate ==
    last.op = "create" => \A f \in last.template : f.complete

\* a path with a parent-traversal segment or a leading slash
UnsafePath(p) == p \in {"../x", "/x"}

\* C11: a request whose target path has a ".." segment or a leading slash is
\* rejected before any archive lookup: it writes no artifact, and no artifact
\* holds an entry at such a path.
C11_UnsafePathRejected ==
    /\ (last.op = "create" /\ last.stage \in {"save", "done"}) => ~UnsafePath(last.path)
    /\ \A n \in DOMAIN generated : \A q \in DOMAIN generated[n].data : ~UnsafePath(q)

\* a doctype declaration, an opening html tag or an opening body tag, in any case
Marker == {"<!DOCTYPE html", "<!doctype html", "<HTML", "<html", "<Body", "<body"}

\* C12: the validator accepts a payload only if it is not empty and holds at
\* least one structural marker; an empty payload and a payload without any
\* marker are rejected.
C12_AcceptedOnlyWithMarker ==
    last.op = "validate" =>
        /\ last.message \in {"accepted", "rejected"}
        /\ last.message = "accepted" =>
              (last.payload # <<>> /\ \E i \in 1..Len(last.payload) : last.payload[i] \in Marker)

\* C12 witness: a payload that is not empty and has no marker was rejected
C12_Witness ==
    /\ last.op = "validate" /\ last.message = "rejected"
    /\ last.payload # <<>>
    /\ \A i \in 1..Len(last.payload) : last.payload[i] \notin Marker

\* C13: a request rejected for its payload or for the missing template writes
\* no artifact and schedules no timer, and a request with an invalid payload
\* is answered 400 without the current template being looked for or read.
C13_RejectionCreatesNothing ==
    /\ [][(CreateStep /\ last'.stage = "rejected") =>
              (generated' = generated /\ timers' = timers)]_vars
    /\ []((last.op = "create" /\ ~isLikelyHtml(last.payload)) =>
              (last.stage = "rejected" /\ last.status = "400" /\ last.template = {}))

\* C13 witness: an invalid payload was rejected as such while no template exists
C13_Witness ==
    /\ last.op = "create" /\ last.stage = "rejected"
    /\ last.message = "Provided content does not look like valid HTML."
    /\ ~existsSync(templates, curName)

\* C14: a request answered with success adds exactly one ledger entry, a
\* Success entry naming the artifact it created, adds one to the success
\* counter and leaves the failure counter alone.
C14_SuccessIsRecordedOnce ==
    [][(CreateStep /\ last'.status = "200") =>
          /\ Len(DB'.requests) = Len(DB.requests) + 1
          /\ Tail(DB'.requests) = DB.requests
          /\ "error" \notin DOMAIN Head(DB'.requests)
          /\ Head(DB'.requests).filename = last'.url
          /\ DB'.stats.success = DB.stats.success + 1
          /\ DB'.stats.fail = DB.stats.fail]_vars

\* C14 witness: a request was answered with success and the ledger has its entry
C14_Witness ==
    /\ last.op = "create" /\ last.status = "200"
    /\ DB.requests # <<>>
    /\ DB.stats.success > 0

\* C15: when the ledger save fails after the artifact was written, the
\* artifact is still there, whole, with the content the request gave it.
C15_ArtifactSurvivesLedgerFailure ==
    (last.op = "create" /\ last.stage = "save") =>
        /\ existsSync(generated, last.name)
        /\ generated[last.name].complete
        /\ generated[last.name].req = last.req
        /\ last.path \in DOMAIN generated[last.name].data
        /\ generated[last.name].data[last.path] = last.content

\* C15 witness: the ledger save failed after an artifact was written
C15_Witness ==
    /\ last.op = "create" /\ last.stage = "save" /\ last.status = "500"
    /\ fetch(last.name) # {}

\* C16: the ledger only grows: every step keeps the entries it had, unchanged
\* and in the same order, and puts the new ones in front of them.
C16_LedgerOnlyGrows ==
    [][\E k \in 0..2 :
          /\ Len(DB'.requests) = Len(DB.requests) + k
          /\ SubSeq(DB'.requests, k + 1, Len(DB'.requests)) = DB.requests]_vars

\* C16 witness: an entry was recorded while the ledger already had one
C16_Witness ==
    /\ last.op = "create" /\ last.stage \in {"parse", "write", "save", "done"}
    /\ Len(DB.requests) >= 2

C18_RewriteIdempotent ==
    last.op = "rewrite" => generated[twice].data = generated[once].data

\* C18 witness: the path was absent from the container, so the first rewrite
\* added the entry and the second one found it
C18_Witness ==
    /\ last.op = "rewrite"
    /\ TemplateRead # Container({})
    /\ last.path \notin DOMAIN TemplateRead
    /\ last.path \in DOMAIN generated[once].data
    /\ last.content # <<>>

\* C19: one request never records both outcomes: it does not add a Success
\* entry and a Failure entry, nor raise both counters.
C19_OneOutcomePerRequest ==
    [][CreateStep =>
          /\ Len(DB'.requests) <= Len(DB.requests) + 1
          /\ ~(DB'.stats.success > DB.stats.success /\ DB'.stats.fail > DB.stats.fail)]_vars

\* C20: the success counter is the number of Success entries of the ledger and
\* the failure counter the number of Failure entries.
C20_CountersMatchLedger ==
    /\ DB.stats.success =
          Cardinality({i \in 1..Len(DB.requests) : "error" \notin DOMAIN DB.requests[i]})
    /\ DB.stats.fail =
          Cardinality({i \in 1..Len(DB.requests) : "error" \in DOMAIN DB.requests[i]})

\* C20 witness: the ledger holds entries of both kinds
C20_Witness ==
    /\ DB.stats.success > 0 /\ DB.stats.fail > 0
    /\ Len(DB.requests) >= 2

====
